---- MODULE Spec2Model ----
(***************************************************************************)
(* Model of basketballapp.py, a Streamlit tagging application.             *)
(*                                                                         *)
(* Streamlit runs the whole script, top to bottom, once for every user     *)
(* interaction.  st.session_state (buttons, events) and the values of the  *)
(* keyed or persistent widgets (opponent, game_date, quarter, the file in  *)
(* the file uploader) survive from one run to the next; a button or a form *)
(* submit is True only in the run its click started.  Every action below   *)
(* is therefore one complete script run, started by one interaction.       *)
(*                                                                         *)
(* Text is modelled as a sequence of one-character strings so that strip,  *)
(* lower, slicing and startswith are computed, not assumed.                *)
(***************************************************************************)
EXTENDS Integers, Sequences, FiniteSets, TLC

VARIABLES
    buttons,    \* st.session_state.buttons: sequence of [label, color]
    events,     \* st.session_state.events: sequence of event records
    opponent,   \* value of the "Opponent" text input
    game_date,  \* value of the "Game Date" date input
    quarter,    \* value of the "Quarter" selectbox
    uploaded,   \* file held by the "Load Layout (JSON)" uploader, or NoFile
    notes       \* messages (sidebar notices, toasts) shown by the last run

vars == <<buttons, events, opponent, game_date, quarter, uploaded, notes>>

-----------------------------------------------------------------------------
(* Bounds of the model *)

MaxButtons == 2      \* Add Button is offered while the registry is shorter
MaxEvents == 2       \* a grid button is offered while the ledger is shorter
MaxDocEntries == 2   \* longest "buttons" list of an uploaded document

(* Program constants *)

MaxLabelLen == 32    \* the slice [:32] of the Load Layout cleaning loop

-----------------------------------------------------------------------------
(* Text helpers *)

Min(a, b) == IF a < b THEN a ELSE b

Rep(c, n) == [i \in 1..n |-> c]

IsSpace(c) == c \in {" ", "\t", "\n"}

RECURSIVE LStrip(_)
LStrip(s) == IF s # <<>> /\ IsSpace(Head(s)) THEN LStrip(Tail(s)) ELSE s

RECURSIVE RStrip(_)
RStrip(s) ==
    IF s # <<>> /\ IsSpace(s[Len(s)]) THEN RStrip(SubSeq(s, 1, Len(s) - 1)) ELSE s

\* str.strip(): leading and trailing whitespace removed
Strip(s) == RStrip(LStrip(s))

\* str.lower(), on the letters the model's inputs use
LowerChar(c) ==
    CASE c = "A" -> "a" [] c = "B" -> "b" [] c = "N" -> "n"
      [] c = "P" -> "p" [] c = "R" -> "r" [] c = "X" -> "x"
      [] OTHER -> c

Lower(s) == [i \in 1..Len(s) |-> LowerChar(s[i])]

\* s[:n]
Slice(s, n) == SubSeq(s, 1, Min(Len(s), n))

\* str.startswith
StartsWith(s, p) == Len(s) >= Len(p) /\ SubSeq(s, 1, Len(p)) = p

-----------------------------------------------------------------------------
(* Literals of the program *)

PickAndRoll == <<"P", "i", "c", "k", " ", "a", "n", "d", " ", "R", "o", "l", "l">>
DefaultColor == <<"#", "3", "f", "5", "1", "b", "5">>
Red == <<"#", "f", "f", "0", "0", "0", "0">>

SeedButtons == <<[label |-> PickAndRoll, color |-> DefaultColor]>>

QuarterOptions == <<"", "Q1", "Q2", "Q3", "Q4", "OT">>

Made2 == <<"M", "a", "d", "e", " ", "2">>
Made3 == <<"M", "a", "d", "e", " ", "3">>
Missed2 == <<"M", "i", "s", "s", "e", "d", " ", "2">>
Missed3 == <<"M", "i", "s", "s", "e", "d", " ", "3">>
Foul == <<"F", "o", "u", "l">>
ResultOptions == <<Made2, Made3, Missed2, Missed3, Foul>>

MadePrefix == <<"M", "a", "d", "e">>
MissedPrefix == <<"M", "i", "s", "s", "e", "d">>

\* the messages the script shows
LabelRequired == "Label is required."
LabelExists == "That label already exists."
Added == "Added"
NoValidButtons == "No valid buttons found."
Loaded == "Loaded"
FailedToLoad == "Failed to load"
UndidLastTag == "Undid last tag."
ClearedAll == "Cleared all events."
EnterContext == "Enter Opponent, Date, and Quarter first."
Tagged == "Tagged"

-----------------------------------------------------------------------------
(* JSON documents.  A value is [t, v]: t its JSON type, v its text.        *)

JStr(s) == [t |-> "str", v |-> s]
JNull == [t |-> "null", v |-> <<>>]
Absent == [t |-> "absent", v |-> <<>>]

\* an element of the "buttons" list: a JSON object with (or without) the two
\* keys, or a JSON scalar, which has no .get
JObj(l, c) == [obj |-> TRUE, label |-> l, color |-> c]
JScalar == [obj |-> FALSE, label |-> Absent, color |-> Absent]

\* a document: unparsable text, a top level that is no object, or an object
\* whose "buttons" is absent, null or a list
NoFile == [kind |-> "none", btns |-> "absent", items |-> <<>>]
BadJson == [kind |-> "unparsable", btns |-> "absent", items |-> <<>>]
TopList == [kind |-> "list", btns |-> "absent", items |-> <<>>]
NoButtonsKey == [kind |-> "object", btns |-> "absent", items |-> <<>>]
NullButtons == [kind |-> "object", btns |-> "null", items |-> <<>>]
Layout(items) == [kind |-> "object", btns |-> "list", items |-> items]

\* str(x) of a decoded JSON value
PyStr(x) == IF x.t = "null" THEN <<"N", "o", "n", "e">> ELSE x.v

\* b.get(key, default) of a decoded JSON object
Get(x, default) == IF x.t = "absent" THEN default ELSE x

\* Save Layout: json.dumps({"buttons": st.session_state.buttons}), the registry
\* as a JSON object holding a list of objects with two string values
Serialize(btns) ==
    Layout([i \in 1..Len(btns) |->
                JObj(JStr(btns[i].label), JStr(btns[i].color))])

-----------------------------------------------------------------------------
(* Dates and instants *)

DigitChars == <<"0", "1", "2", "3", "4", "5", "6", "7", "8", "9">>

RECURSIVE Dec(_, _)
\* n in decimal, zero-padded to width w
Dec(n, w) == IF w = 0 THEN <<>> ELSE Append(Dec(n \div 10, w - 1), DigitChars[(n % 10) + 1])

NoDate == [year |-> 0, month |-> 0, day |-> 0]
GameDay == [year |-> 2026, month |-> 1, day |-> 10]
NextDay == [year |-> 2026, month |-> 1, day |-> 11]

\* str(date): YYYY-MM-DD
IsoDate(d) == Dec(d.year, 4) \o <<"-">> \o Dec(d.month, 2) \o <<"-">> \o Dec(d.day, 2)

\* reading of datetime.now().isoformat(timespec="seconds"); the script stores
\* it in the event and never reads it back
Instants == {"2026-01-10T19:00:00"}

-----------------------------------------------------------------------------
(* The sections of the script, in the order the script runs them.  Each    *)
(* takes the session state it reads and returns what it leaves.            *)

\* sidebar form "new_btn_form"
NewBtnForm(btns, submitted, new_label, new_color) ==
    IF ~submitted THEN [buttons |-> btns, notes |-> {}]
    ELSE LET lbl == Strip(new_label) IN
         IF lbl = <<>> THEN [buttons |-> btns, notes |-> {LabelRequired}]
         ELSE IF \E i \in 1..Len(btns) : Lower(btns[i].label) = Lower(lbl)
              THEN [buttons |-> btns, notes |-> {LabelExists}]
              ELSE [buttons |-> Append(btns, [label |-> lbl, color |-> new_color]),
                    notes |-> {Added}]

RECURSIVE CleanLoop(_, _)
\* the loop "for b in btns": raised when b.get fails on an element that is no
\* object; cleaned is the local list built so far
CleanLoop(items, cleaned) ==
    IF items = <<>> THEN [raised |-> FALSE, cleaned |-> cleaned]
    ELSE LET b == Head(items) IN
         IF ~b.obj THEN [raised |-> TRUE, cleaned |-> cleaned]
         ELSE LET label == Slice(Strip(PyStr(Get(b.label, JStr(<<>>)))), MaxLabelLen)
                  color == Strip(PyStr(Get(b.color, JStr(DefaultColor))))
              IN  CleanLoop(Tail(items),
                            IF label # <<>>
                            THEN Append(cleaned, [label |-> label, color |-> color])
                            ELSE cleaned)

\* the try block under "uploaded is not None" committing what the loop had
\* cleaned when an element raised
LoadLayoutPartial(btns, up) ==
    IF up.kind = "none" THEN [buttons |-> btns, notes |-> {}]
    ELSE IF up.kind # "object" \/ up.btns = "null"
         THEN [buttons |-> btns, notes |-> {FailedToLoad}]
         ELSE LET r == CleanLoop(up.items, <<>>) IN
              IF r.raised
              THEN [buttons |-> IF r.cleaned = <<>> THEN btns ELSE r.cleaned,
                    notes |-> {FailedToLoad}]
              ELSE IF r.cleaned = <<>>
                   THEN [buttons |-> btns, notes |-> {NoValidButtons}]
                   ELSE [buttons |-> r.cleaned, notes |-> {Loaded}]

\* "Load Layout (JSON)": json.load raises on unparsable text, content.get on a
\* top level that is no object, the for loop on a null "buttons"; an absent
\* "buttons" is the empty list
LoadLayout(btns, up) ==
    IF up.kind = "none" THEN [buttons |-> btns, notes |-> {}]
    ELSE IF up.kind # "object" \/ up.btns = "null"
         THEN [buttons |-> btns, notes |-> {FailedToLoad}]
         ELSE LET r == CleanLoop(up.items, <<>>) IN
              IF r.raised THEN [buttons |-> btns, notes |-> {FailedToLoad}]
              ELSE IF r.cleaned = <<>>
                   THEN [buttons |-> btns, notes |-> {NoValidButtons}]
                   ELSE [buttons |-> r.cleaned, notes |-> {Loaded}]

\* "Undo Last Tag" popping the oldest event
UndoLastTagFirst(evs, clicked) ==
    IF clicked /\ evs # <<>>
    THEN [events |-> Tail(evs), notes |-> {UndidLastTag}]
    ELSE [events |-> evs, notes |-> {}]

\* "Undo Last Tag": events.pop() when the list is not empty
UndoLastTag(evs, clicked) ==
    IF clicked /\ evs # <<>>
    THEN [events |-> SubSeq(evs, 1, Len(evs) - 1), notes |-> {UndidLastTag}]
    ELSE [events |-> evs, notes |-> {}]

\* "Reset Counts"
ResetCounts(evs, clicked) ==
    IF clicked THEN [events |-> <<>>, notes |-> {ClearedAll}]
    ELSE [events |-> evs, notes |-> {}]

\* The grid gives button i the key "btn_<label>".  Streamlit refuses a second
\* element with a key already used in the run and stops the script there, so
\* button i exists only if the first i labels are pairwise different.
Rendered(btns, i) ==
    /\ i \in 1..Len(btns)
    /\ \A j, k \in 1..i : j # k => btns[j].label # btns[k].label

\* "not opponent or not game_date or not quarter"
MissingContext(opp, date, q) == opp = <<>> \/ date = NoDate \/ q = ""

\* the body of "if cols[i].button(label, ...)": click is the index of the
\* clicked button or 0, result the value the result selectbox returns, now
\* the clock reading
TagButton(btns, evs, opp, date, q, click, result, now) ==
    IF click = 0 THEN [events |-> evs, notes |-> {}]
    ELSE IF MissingContext(opp, date, q)
         THEN [events |-> evs, notes |-> {EnterContext}]
         ELSE IF result = <<>> THEN [events |-> evs, notes |-> {}]
              ELSE [events |-> Append(evs,
                        [opponent |-> Strip(opp),
                         game_date |-> IsoDate(date),
                         quarter |-> q,
                         timestamp_iso |-> now,
                         label |-> btns[click].label,
                         result |-> result]),
                    notes |-> {Tagged}]

-----------------------------------------------------------------------------
(* What the user enters *)

Range(f) == {f[i] : i \in DOMAIN f}

LongLabel == Rep("a", MaxLabelLen + 1)

\* text typed into "New Button Label"
LabelInputs ==
    {<<>>, <<" ">>, <<"b">>, <<" ", "B", " ">>, Lower(PickAndRoll), LongLabel}

\* colour picked in "Color"
ColorInputs == {Red}

\* elements of an uploaded "buttons" list that survive the cleaning
KeptEntries ==
    {JObj(JStr(<<"b">>), JStr(<<" ">> \o Red \o <<" ">>)),
     JObj(JStr(<<" ", "B">>), Absent),
     JObj(JStr(Rep("a", MaxLabelLen - 1) \o <<" ", "b">>), JNull)}

\* elements that do not: a blank label, and a scalar in place of an object
BlankEntry == JObj(JStr(<<" ">>), JStr(Red))
LastEntries == {BlankEntry, JScalar}

SeqsUpTo(S, n) == UNION {[1..k -> S] : k \in 0..n}

\* files chosen in "Load Layout (JSON)": lists of kept elements, and such lists
\* ending in an element that is dropped or that raises
UploadInputs ==
    {BadJson, TopList, NoButtonsKey, NullButtons}
        \cup {Layout(items) : items \in SeqsUpTo(KeptEntries, MaxDocEntries)}
        \cup {Layout(Append(items, e)) :
                  items \in SeqsUpTo(KeptEntries, MaxDocEntries - 1), e \in LastEntries}

OpponentInputs == {<<>>, <<" ">>, <<"X", " ">>}
DateInputs == {GameDay, NextDay}
QuarterInputs == {"", "Q1", "OT"}

\* st.selectbox without index: a selectbox created in this run holds its first
\* option.  The result selectbox is created only in a run a grid button
\* started, under a key of its own, so that is the value it returns there.
NewSelectbox(options) == options[1]

-----------------------------------------------------------------------------
(* One script run *)

\* the widgets that are True (or hold a value) only in the run they start
Idle ==
    [submitted |-> FALSE, new_label |-> <<>>, new_color |-> DefaultColor,
     undo |-> FALSE, reset |-> FALSE, click |-> 0, result |-> <<>>,
     now |-> "2026-01-10T19:00:00"]

\* the script from line 1 to the end, with up, opp, date and q the values the
\* persistent widgets hold in this run and t the widgets of this run alone
ScriptRun(up, opp, date, q, t) ==
    LET f == NewBtnForm(buttons, t.submitted, t.new_label, t.new_color)
        l == LoadLayout(f.buttons, up)
        u == UndoLastTag(events, t.undo)
        r == ResetCounts(u.events, t.reset)
        g == TagButton(l.buttons, r.events, opp, date, q, t.click, t.result, t.now)
    IN  /\ buttons' = l.buttons
        /\ events' = g.events
        /\ notes' = f.notes \cup l.notes \cup u.notes \cup r.notes \cup g.notes
        /\ uploaded' = up
        /\ opponent' = opp
        /\ quarter' = q
        /\ game_date' = date

Init ==
    /\ buttons = SeedButtons
    /\ events = <<>>
    /\ opponent = <<>>
    /\ game_date = GameDay
    /\ quarter = QuarterOptions[1]
    /\ uploaded = NoFile
    /\ notes = {}

\* "Add Button" submitted with a label and a colour
SubmitAddButton ==
    /\ Len(buttons) < MaxButtons
    /\ \E nl \in LabelInputs, nc \in ColorInputs :
          ScriptRun(uploaded, opponent, game_date, quarter,
                    [Idle EXCEPT !.submitted = TRUE, !.new_label = nl, !.new_color = nc])

\* a file chosen in the uploader
UploadFile ==
    \E d \in UploadInputs : d # uploaded /\ ScriptRun(d, opponent, game_date, quarter, Idle)

\* the file removed from the uploader
RemoveFile ==
    /\ uploaded # NoFile
    /\ ScriptRun(NoFile, opponent, game_date, quarter, Idle)

\* the "Opponent" text edited
SetOpponent ==
    \E o \in OpponentInputs : o # opponent /\ ScriptRun(uploaded, o, game_date, quarter, Idle)

\* another "Game Date" picked
SetGameDate ==
    \E d \in DateInputs : d # game_date /\ ScriptRun(uploaded, opponent, d, quarter, Idle)

\* another "Quarter" chosen
SetQuarter ==
    \E q \in QuarterInputs : q # quarter /\ ScriptRun(uploaded, opponent, game_date, q, Idle)

\* "Undo Last Tag" clicked
ClickUndo == ScriptRun(uploaded, opponent, game_date, quarter, [Idle EXCEPT !.undo = TRUE])

\* "Reset Counts" clicked
ClickReset == ScriptRun(uploaded, opponent, game_date, quarter, [Idle EXCEPT !.reset = TRUE])

\* a grid button clicked
ClickButton ==
    /\ Len(events) < MaxEvents
    /\ \E i \in 1..Len(buttons), now \in Instants :
          /\ Rendered(buttons, i)
          /\ ScriptRun(uploaded, opponent, game_date, quarter,
                       [Idle EXCEPT !.click = i, !.result = NewSelectbox(ResultOptions),
                                    !.now = now])

NextRegistry == SubmitAddButton \/ UploadFile \/ RemoveFile

NextLedger ==
    SetOpponent \/ SetGameDate \/ SetQuarter \/ ClickUndo \/ ClickReset \/ ClickButton

Next == NextRegistry \/ NextLedger

\* the whole application; the properties below are checked under the three
\* specifications that follow, each a part of it
Spec == Init /\ [][Next]_vars

\* the sidebar's registry operations alone
SpecRegistry == Init /\ [][NextRegistry]_vars

\* the game context, the grid and the session buttons alone
SpecLedger == Init /\ [][NextLedger]_vars

\* events with every label, quarter and result that Totals can be given
LedgerEvents ==
    {[opponent |-> <<"X">>, game_date |-> IsoDate(GameDay), quarter |-> q,
      timestamp_iso |-> "2026-01-10T19:00:00", label |-> l, result |-> r] :
        l \in {PickAndRoll, <<"b">>}, q \in {"Q1", "OT"}, r \in Range(ResultOptions)}

\* a session with two buttons and the game context entered, holding any
\* ledger of such events
InitTotals ==
    /\ buttons = Append(SeedButtons, [label |-> <<"b">>, color |-> Red])
    /\ events \in SeqsUpTo(LedgerEvents, MaxEvents)
    /\ opponent = <<"X", " ">>
    /\ game_date = GameDay
    /\ quarter = "Q1"
    /\ uploaded = NoFile
    /\ notes = {}

NextTotals == SetQuarter \/ ClickUndo \/ ClickReset \/ ClickButton

\* Totals and FG% Breakdown over any ledger, and tagging, undo and reset from it
SpecTotals == InitTotals /\ [][NextTotals]_vars

-----------------------------------------------------------------------------
(* Totals and FG% Breakdown: what the script derives from the ledger in    *)
(* every run.  A dict is a function on its set of keys.                    *)

RECURSIVE CountFoldOnce(_, _)
\* the loop of compute_counts storing 1 for every key it meets
CountFoldOnce(evs, counts) ==
    IF evs = <<>> THEN counts
    ELSE LET ev == Head(evs)
             key == <<ev.label, ev.quarter, ev.result>>
         IN  CountFoldOnce(Tail(evs),
                 [k \in DOMAIN counts \cup {key} |->
                     IF k = key THEN 1 ELSE counts[k]])

RECURSIVE CountFold(_, _)
\* the loop of compute_counts: counts[key] = counts.get(key, 0) + 1
CountFold(evs, counts) ==
    IF evs = <<>> THEN counts
    ELSE LET ev == Head(evs)
             key == <<ev.label, ev.quarter, ev.result>>
             n == IF key \in DOMAIN counts THEN counts[key] ELSE 0
         IN  CountFold(Tail(evs),
                 [k \in DOMAIN counts \cup {key} |->
                     IF k = key THEN n + 1 ELSE counts[k]])

compute_counts(evs) == CountFold(evs, <<>>)

\* the rows of df_counts; the sums below do not read their order
df_counts(counts) ==
    {[Tag |-> k[1], Quarter |-> k[2], Result |-> k[3], Total |-> counts[k]] :
        k \in DOMAIN counts}

made_mask(row) == StartsWith(row.Result, MadePrefix)
miss_mask(row) == StartsWith(row.Result, MissedPrefix)

\* df_counts_fg: Total.where(mask, 0)
df_counts_fg(rows) ==
    {[Tag |-> r.Tag, Quarter |-> r.Quarter, Result |-> r.Result, Total |-> r.Total,
      Made |-> IF made_mask(r) THEN r.Total ELSE 0,
      Missed |-> IF miss_mask(r) THEN r.Total ELSE 0] : r \in rows}

RECURSIVE SumMade(_)
SumMade(rows) ==
    IF rows = {} THEN 0
    ELSE LET r == CHOOSE x \in rows : TRUE IN r.Made + SumMade(rows \ {r})

RECURSIVE SumMissed(_)
SumMissed(rows) ==
    IF rows = {} THEN 0
    ELSE LET r == CHOOSE x \in rows : TRUE IN r.Missed + SumMissed(rows \ {r})

\* floats: a quotient of integers, NaN (0/0) or inf (x/0)
Num(a, b) == [kind |-> "num", num |-> a, den |-> b]
NaN == [kind |-> "nan", num |-> 0, den |-> 1]
Inf == [kind |-> "inf", num |-> 0, den |-> 1]
Zero == Num(0, 1)

\* Series division
Div(a, b) == IF b # 0 THEN Num(a, b) ELSE IF a = 0 THEN NaN ELSE Inf

\* .replace([None, nan], 0) leaving NaN in place
ReplaceNaNKept(x) == x

\* .replace([None, float("nan")], 0)
ReplaceNaN(x) == IF x.kind = "nan" THEN Zero ELSE x

\* * 100
Times100(x) == IF x.kind = "num" THEN Num(x.num * 100, x.den) ELSE x

\* fg_summary: groupby(["Tag", "Quarter"]) sums with Attempts and FG%
fg_summary(rows) ==
    LET fgrows == df_counts_fg(rows)
        groups == {<<r.Tag, r.Quarter>> : r \in fgrows}
    IN  [g \in groups |->
            LET mine == {r \in fgrows : <<r.Tag, r.Quarter>> = g}
                made == SumMade(mine)
                missed == SumMissed(mine)
            IN  [Made |-> made, Missed |-> missed, Attempts |-> made + missed,
                 FG |-> Times100(ReplaceNaN(Div(made, made + missed)))]]

RECURSIVE SumField(_, _, _)
\* Series.sum() of a column (field "Made" or "Attempts") of fg_summary
SumField(fg, groups, field) ==
    IF groups = {} THEN 0
    ELSE LET g == CHOOSE x \in groups : TRUE
         IN  (IF field = "Made" THEN fg[g].Made ELSE fg[g].Attempts)
                 + SumField(fg, groups \ {g}, field)

\* Overall FG%
overall_fg(fg) ==
    LET total_made == SumField(fg, DOMAIN fg, "Made")
        total_attempts == SumField(fg, DOMAIN fg, "Attempts")
    IN  IF total_attempts > 0 THEN Times100(Div(total_made, total_attempts)) ELSE Zero

-----------------------------------------------------------------------------
(* Properties *)

Last(s) == s[Len(s)]

RECURSIVE Reverse(_)
Reverse(s) == IF s = <<>> THEN <<>> ELSE Append(Reverse(Tail(s)), Head(s))

\* two events that a click of the first button can append
Taggable ==
    {TagButton(buttons, <<>>, <<"X">>, game_date, c[1], 1, c[2], Idle.now).events[1] :
        c \in {<<"Q1", Made2>>, <<"OT", Foul>>}}

RECURSIVE TagAll(_, _)
\* the ledger after the grid appended the events es to evs, one per run
TagAll(evs, es) ==
    IF es = <<>> THEN evs
    ELSE TagAll(TagButton(buttons, evs, <<"X">>, game_date, Head(es).quarter, 1,
                          Head(es).result, Head(es).timestamp_iso).events,
                Tail(es))

RECURSIVE UndoTimes(_, _, _)
\* n clicks of "Undo Last Tag" on evs: the ledger left and the events removed,
\* in the order of their removal
UndoTimes(evs, n, removed) ==
    IF n = 0 THEN [events |-> evs, removed |-> removed]
    ELSE LET after == UndoLastTag(evs, TRUE).events
         IN  UndoTimes(after, n - 1,
                       IF Len(after) < Len(evs)
                       THEN Append(removed, evs[Len(evs)]) ELSE removed)

\* C1, on the operations: from the ledger of any reachable state, n events
\* appended and then n undos remove them in reverse insertion order and leave
\* the ledger as it was; an undo of the empty ledger leaves it empty.
C1_UndoReversesAppends ==
    /\ \A es \in SeqsUpTo(Taggable, MaxEvents) :
          UndoTimes(TagAll(events, es), Len(es), <<>>)
              = [events |-> events, removed |-> Reverse(es)]
    /\ UndoTimes(<<>>, 1, <<>>) = [events |-> <<>>, removed |-> <<>>]

\* C1, on the runs: a run started by "Undo Last Tag" removes exactly the last
\* event of a non-empty ledger and leaves an empty ledger empty, and a run
\* that lengthens the ledger appends one event at its tail.
C1_UndoStep ==
    /\ ClickUndo =>
          IF events = <<>> THEN events' = <<>>
          ELSE events = Append(events', Last(events))
    /\ Len(events') > Len(events) =>
          /\ Len(events') = Len(events) + 1
          /\ SubSeq(events', 1, Len(events)) = events

\* C1: Undo Last Tag removes exactly the most recently appended event: n
\* appends followed by n undos remove the events in reverse insertion order
\* and restore the ledger, and undo on an empty ledger leaves it empty.
C1_Undo == [](C1_UndoReversesAppends) /\ [][C1_UndoStep]_vars

\* C1 witness: an undo has just removed an event and events remain
C1_Witness == notes = {UndidLastTag} /\ events # <<>>

\* what the Load Layout cleaning makes of one element of the list
CleanedEntry(e) ==
    [label |-> Slice(Strip(IF e.label.t = "absent" THEN <<>>
                           ELSE IF e.label.t = "null" THEN <<"N", "o", "n", "e">>
                           ELSE e.label.v), MaxLabelLen),
     color |-> Strip(IF e.color.t = "absent" THEN DefaultColor
                     ELSE IF e.color.t = "null" THEN <<"N", "o", "n", "e">>
                     ELSE e.color.v)]

HasLabel(b) == b.label # <<>>

\* the complete cleaned sequence of a document: every element cleaned, those
\* with a non-empty label kept, in input order
CleanedAll(d) == SelectSeq([i \in 1..Len(d.items) |-> CleanedEntry(d.items[i])], HasLabel)

\* the document parses and every element of its list can be cleaned
Cleanable(d) ==
    /\ d.kind = "object"
    /\ d.btns # "null"
    /\ \A i \in 1..Len(d.items) : d.items[i].obj

\* a run started by choosing a file in the uploader
UploadStep == uploaded' # uploaded /\ uploaded' # NoFile

\* the file d can be loaded: it is cleanable and an entry survives
Loadable(d) == Cleanable(d) /\ CleanedAll(d) # <<>>

\* C2: loading a layout is all-or-nothing: after the run that loads a file the
\* registry is the complete cleaned sequence of the file's entries and a
\* success is shown, or, when the file cannot be parsed or cleaned at some
\* entry or no entry survives, the registry is as it was and an error is shown;
\* and after every run that held a file, the registry is that file's complete
\* cleaned sequence or an error is shown.
C2_LoadAllOrNothing ==
    [][/\ UploadStep =>
             IF Loadable(uploaded')
             THEN buttons' = CleanedAll(uploaded') /\ notes' = {Loaded}
             ELSE /\ buttons' = buttons
                  /\ notes' = IF Cleanable(uploaded')
                              THEN {NoValidButtons} ELSE {FailedToLoad}
       /\ uploaded' # NoFile =>
             IF Loadable(uploaded')
             THEN buttons' = CleanedAll(uploaded') /\ Loaded \in notes'
             ELSE notes' \cap {NoValidButtons, FailedToLoad} # {}]_vars

\* C2 witness: a load that failed at its second entry, after the first had been
\* cleaned, has left the seeded registry in place
C2_Witness ==
    /\ uploaded.kind = "object" /\ Len(uploaded.items) = 2
    /\ uploaded.items[1].obj /\ HasLabel(CleanedEntry(uploaded.items[1]))
    /\ ~uploaded.items[2].obj
    /\ notes = {FailedToLoad}
    /\ buttons = SeedButtons

\* a run started by "Add Button" with label nl and colour nc
AddStep(nl, nc) ==
    /\ Len(buttons) < MaxButtons
    /\ ScriptRun(uploaded, opponent, game_date, quarter,
                 [Idle EXCEPT !.submitted = TRUE, !.new_label = nl, !.new_color = nc])

SameLabel(a, b) == Lower(a) = Lower(b)

\* C3: Add Button with a label empty after trimming fails with the empty-label
\* error, with a label equal to an existing one case-insensitively fails with
\* the duplicate-label error, both leaving the registry unchanged; otherwise
\* exactly one entry {trimmed label, color} is appended at the end.
C3_AddContract ==
    [][\A nl \in LabelInputs, nc \in ColorInputs : AddStep(nl, nc) =>
          IF Strip(nl) = <<>>
          THEN buttons' = buttons /\ LabelRequired \in notes'
          ELSE IF \E i \in 1..Len(buttons) : SameLabel(buttons[i].label, Strip(nl))
               THEN buttons' = buttons /\ LabelExists \in notes'
               ELSE buttons' = Append(buttons, [label |-> Strip(nl), color |-> nc])]_vars

\* C4: no two entries of the button registry have labels that are equal
\* case-insensitively.
C4_UniqueLabels ==
    \A i, j \in 1..Len(buttons) :
        i # j => ~SameLabel(buttons[i].label, buttons[j].label)

\* C9: every label of the button registry is non-empty after trimming and at
\* most 32 characters long.
C9_LabelsValid ==
    \A i \in 1..Len(buttons) :
        Strip(buttons[i].label) # <<>> /\ Len(buttons[i].label) <= MaxLabelLen

\* C8: a registry whose labels are all non-empty and at most 32 characters,
\* exported with Save Layout and loaded back with Load Layout, yields the
\* same labels and colors in the same order.
C8_RoundTrip ==
    (\A i \in 1..Len(buttons) :
        buttons[i].label # <<>> /\ Len(buttons[i].label) <= MaxLabelLen)
    => LoadLayout(<<>>, Serialize(buttons)).buttons = buttons

\* C5: every event of the ledger has a non-empty stored opponent, a stored
\* game date and a quarter among Q1, Q2, Q3, Q4 and OT, whatever opponent
\* text the user typed (whitespace-only text included).
C5_EventsHaveContext ==
    \A i \in 1..Len(events) :
        /\ events[i].opponent # <<>>
        /\ events[i].game_date # <<>>
        /\ events[i].quarter \in {"Q1", "Q2", "Q3", "Q4", "OT"}

\* a run started by a click on a grid button while opponent, date and quarter
\* are all present
ClickStep == ClickButton /\ ~MissingContext(opponent, game_date, quarter)

\* C10: a button activation with complete context appends nothing; the event
\* is appended only by a later step in which the user chooses the result.
C10_ActivationAppendsNothing ==
    [][ClickStep => events' = events]_vars

Indices(label, q, results) ==
    {i \in 1..Len(events) :
        /\ events[i].label = label
        /\ events[i].quarter = q
        /\ events[i].result \in results}

AllResults == Range(ResultOptions)

Pairs == {<<events[i].label, events[i].quarter>> : i \in 1..Len(events)}

\* x is the float a / b * 100
IsPercent(x, a, b) == x.kind = "num" /\ x.den # 0 /\ x.num * b = a * 100 * x.den

\* C6: for every ledger and every (label, quarter) with at least one event,
\* made counts the Made 2 and Made 3 events, missed the Missed 2 and Missed 3
\* events, attempts = made + missed, Foul counts toward neither, FG% is
\* made/attempts*100 when attempts > 0 and exactly 0 otherwise; the overall
\* FG% is total made over total attempts, and 0 when there are no attempts.
C6_Shooting ==
    events # <<>> =>
        LET fg == fg_summary(df_counts(compute_counts(events)))
            made(p) == Cardinality(Indices(p[1], p[2], {Made2, Made3}))
            missed(p) == Cardinality(Indices(p[1], p[2], {Missed2, Missed3}))
            allMade == Cardinality({i \in 1..Len(events) : events[i].result \in {Made2, Made3}})
            allShots == Cardinality({i \in 1..Len(events) : events[i].result # Foul})
        IN  /\ DOMAIN fg = Pairs
            /\ \A p \in Pairs :
                  /\ fg[p].Made = made(p)
                  /\ fg[p].Missed = missed(p)
                  /\ fg[p].Attempts = made(p) + missed(p)
                  /\ fg[p].Attempts
                        = Cardinality(Indices(p[1], p[2], AllResults \ {Foul}))
                  /\ IF fg[p].Attempts > 0
                     THEN IsPercent(fg[p].FG, made(p), made(p) + missed(p))
                     ELSE fg[p].FG = Zero
            /\ IF allShots > 0
               THEN IsPercent(overall_fg(fg), allMade, allShots)
               ELSE overall_fg(fg) = Zero

\* C6 witness: one (label, quarter) holds only a Foul, and a tag has just given
\* another a shot
C6_Witness ==
    /\ \E p \in Pairs :
          Indices(p[1], p[2], {Foul}) # {} /\ Indices(p[1], p[2], AllResults \ {Foul}) = {}
    /\ \E p \in Pairs : Indices(p[1], p[2], AllResults \ {Foul}) # {}
    /\ notes = {Tagged}

Perms(n) == {p \in [1..n -> 1..n] : \A i, j \in 1..n : i # j => p[i] # p[j]}

\* C7: the count table is a function of the multiset of events: each key's
\* count is the number of ledger events with that key, a key with no event is
\* absent, and every permutation of the ledger yields the same table.
C7_Counts ==
    LET counts == compute_counts(events) IN
    /\ DOMAIN counts =
          {<<events[i].label, events[i].quarter, events[i].result>> : i \in 1..Len(events)}
    /\ \A k \in DOMAIN counts : counts[k] = Cardinality(Indices(k[1], k[2], {k[3]}))
    /\ \A p \in Perms(Len(events)) :
          compute_counts([i \in 1..Len(events) |-> events[p[i]]]) = counts

\* C7 witness: a tag has just given the ledger a second event with the key of
\* the first
C7_Witness ==
    /\ Len(events) = 2
    /\ events[1].label = events[2].label
    /\ events[1].result = events[2].result
    /\ events[1].quarter = events[2].quarter
    /\ notes = {Tagged}

====
